---- MODULE Spec2Model ----
(***************************************************************************)
(* A model of aries_cloudagent/conductor.py: the Conductor's fields, its   *)
(* three lifecycle coroutines (setup, start, stop) cut at their await      *)
(* points, and its two message routers.  Collaborators (transport          *)
(* managers, admin server, dispatcher, connection manager, task queue) are *)
(* represented by the state the Conductor's calls leave in them and by the *)
(* outcomes (return / raise) their calls can have.                         *)
(***************************************************************************)
EXTENDS Integers, Sequences, FiniteSets, TLC

\* ------------------------------------------------------------------ bounds

\* Calls of setup, start and stop made on the Conductor, all together.
MaxLifecycleCalls == 3

\* Calls of inbound_message_router.
MaxInbound == 2

\* Calls of outbound_message_router.
MaxOutbound == 1

\* Calls of the two routers, all together.
MaxRouterCalls == 2

\* Calls made on the Conductor, lifecycle calls and router calls together.
MaxCalls == 4

\* Largest deadline handed to stop(timeout), in clock ticks.
MaxTimeout == 1

\* --------------------------------------------------------------- constants

\* Python's None for an object reference; an object built by the g-th
\* lifecycle call (a setup) is referred to by the number g.
None == 0

Gens == 1..MaxLifecycleCalls

Components == {"admin_server", "inbound_transport_manager",
               "outbound_transport_manager"}

\* Python's None in a message field that holds a string.
NoValue == "None"

VARIABLES
    admin_server,                \* self.admin_server
    context,                     \* self.context
    dispatcher,                  \* self.dispatcher
    inbound_transport_manager,   \* self.inbound_transport_manager
    outbound_transport_manager,  \* self.outbound_transport_manager
    status,                      \* status[c][g]: state of the instance g of component c
    injector,                    \* injector[g]: bindings of context g
    webhooks,                    \* webhooks[g]: webhook targets of admin server g
    wrapped,                     \* how often collector.wrap was applied, per target
    calls,                       \* lifecycle calls made so far
    setup_call,                  \* the activation of setup
    start_call,                  \* the activation of start
    stop_call,                   \* the activation of stop
    received,                    \* messages handed to inbound_message_router
    queue,                       \* tasks submitted with dispatcher.queue_message
    inbound_calls,               \* calls of inbound_message_router so far
    warnings,                    \* LOGGER.warning calls of inbound_message_router
    outbound,                    \* the activation of outbound_message_router
    outbound_calls,              \* calls of outbound_message_router so far
    delivered,                   \* messages accepted by outbound_transport_manager.deliver
    undelivered_queue            \* messages kept by the Conductor for a later retry

vars == <<admin_server, context, dispatcher,
          inbound_transport_manager, outbound_transport_manager, status,
          injector, webhooks, wrapped, calls, setup_call, start_call,
          stop_call, received, queue, inbound_calls, warnings, outbound,
          outbound_calls, delivered, undelivered_queue>>

fields == <<admin_server, context, dispatcher, inbound_transport_manager,
            outbound_transport_manager>>

lifecycle_vars == <<admin_server, context, dispatcher,
                    inbound_transport_manager, outbound_transport_manager,
                    status, injector, webhooks, wrapped, calls, setup_call,
                    start_call, stop_call>>

traffic_vars == <<received, queue, inbound_calls, warnings, outbound,
                  outbound_calls, delivered, undelivered_queue>>

\* ------------------------------------------------------------------ inputs

\* context.settings is read where the code reads it: each key is an input of
\* the step that calls context.settings.get on it.

\* admin.webhook_urls: unset or empty (no target is added, line 94), or a
\* list of urls.
WebhookUrls == {<<>>, <<"http://x/hook">>}

\* Whether context.inject(Collector, required=False) finds a collector
\* (line 103): it returns None when none is bound.
Collectors == BOOLEAN

Field(c) ==
    CASE c = "admin_server" -> admin_server
      [] c = "inbound_transport_manager" -> inbound_transport_manager
      [] c = "outbound_transport_manager" -> outbound_transport_manager

\* ------------------------------------------------------------- __init__

\* admin_enabled: the value of admin.enabled this call read (line 82).
IdleSetup == [pc |-> "idle", ctx |-> None, error |-> "none",
              admin_enabled |-> FALSE]

\* failed: the steps of this call that raised; log: the steps it began.
IdleStart == [pc |-> "idle", ctx |-> None, target |-> None, error |-> "none",
              log |-> <<>>, failed |-> {}]

\* invoked: the components whose stop() this call ran; timed_out: whether
\* it returned on its deadline with a stop still pending.
IdleStop == [pc |-> "idle", timeout |-> 0, elapsed |-> 0, tasks |-> {},
             invoked |-> {}, timed_out |-> FALSE]

\* original: the message as passed in; message: the message object as it is
\* now; resolution, delivery: how get_connection_targets and deliver ended;
\* logged: the drop the router logged.
IdleOutbound == [pc |-> "idle", original |-> {}, message |-> {},
                 resolve_calls |-> 0, resolution |-> "none", targets |-> <<>>,
                 deliver_calls |-> 0, deliver_arg |-> {}, delivery |-> "none",
                 logged |-> "none", error |-> "none"]

\* A coroutine's locals are gone when it has returned or raised.
Return(call) == [call EXCEPT !.pc = "returned", !.ctx = None]

Init ==
    /\ admin_server = None
    /\ context = None
    /\ dispatcher = None
    /\ inbound_transport_manager = None
    /\ outbound_transport_manager = None
    /\ status = [c \in Components |-> [g \in Gens |-> "absent"]]
    /\ injector = [g \in Gens |-> [admin |-> None, responder |-> None]]
    /\ webhooks = [g \in Gens |-> <<>>]
    /\ wrapped = [router |-> 0, handle_message |-> [g \in Gens |-> 0],
                  connection_manager |-> 0]
    /\ calls = 0
    /\ setup_call = IdleSetup
    /\ start_call = IdleStart
    /\ stop_call = IdleStop
    /\ received = <<>>
    /\ queue = <<>>
    /\ inbound_calls = 0
    /\ warnings = 0
    /\ outbound = IdleOutbound
    /\ outbound_calls = 0
    /\ delivered = <<>>
    /\ undelivered_queue = <<>>

Finished(call) == call.pc \in {"idle", "returned", "raised"}

\* ------------------------------------------------------------------ setup

\* setup is called: context_builder.build() is awaited (line 65).  The
\* caller awaits setup to its end before it calls anything else.
setup_begin ==
    /\ Finished(setup_call) /\ Finished(start_call) /\ Finished(stop_call)
    /\ calls < MaxLifecycleCalls
    /\ calls + inbound_calls + outbound_calls < MaxCalls
    /\ calls' = calls + 1
    /\ setup_call' = [IdleSetup EXCEPT !.pc = "build", !.ctx = calls + 1]
    /\ UNCHANGED <<fields, status, injector, webhooks, wrapped,
                   start_call, stop_call>>
    /\ UNCHANGED traffic_vars

\* build() returns the context: the Dispatcher and the inbound manager are
\* constructed and inbound_transport_manager.setup() is awaited (lines 67-73);
\* or build() raises, which setup does not catch.
setup_built ==
    /\ setup_call.pc = "build"
    /\ \E ok \in BOOLEAN :
        IF ok
        THEN /\ dispatcher' = setup_call.ctx
             /\ inbound_transport_manager' = setup_call.ctx
             /\ status' = [status EXCEPT
                    !["inbound_transport_manager"][setup_call.ctx] = "constructed"]
             /\ setup_call' = [setup_call EXCEPT !.pc = "inbound_setup"]
        ELSE /\ setup_call' = [setup_call EXCEPT !.pc = "raised", !.ctx = None,
                                                 !.error = "build"]
             /\ UNCHANGED <<dispatcher, inbound_transport_manager, status>>
    /\ UNCHANGED <<admin_server, context, outbound_transport_manager,
                   injector, webhooks, wrapped, calls, start_call, stop_call>>
    /\ UNCHANGED traffic_vars

\* inbound_transport_manager.setup() returns: the outbound manager is
\* constructed and its setup() awaited (lines 76-79); or it raises.
setup_inbound_done ==
    /\ setup_call.pc = "inbound_setup"
    /\ \E ok \in BOOLEAN :
        IF ok
        THEN /\ outbound_transport_manager' = setup_call.ctx
             /\ status' = [status EXCEPT
                    !["outbound_transport_manager"][setup_call.ctx] = "constructed"]
             /\ setup_call' = [setup_call EXCEPT !.pc = "outbound_setup"]
        ELSE /\ setup_call' = [setup_call EXCEPT !.pc = "raised", !.ctx = None,
                                                 !.error = "inbound_setup"]
             /\ UNCHANGED <<outbound_transport_manager, status>>
    /\ UNCHANGED <<admin_server, context, dispatcher,
                   inbound_transport_manager, injector, webhooks, wrapped,
                   calls, start_call, stop_call>>
    /\ UNCHANGED traffic_vars

\* What the admin block of setup (lines 82-100) can do: "skipped" when
\* admin.enabled is unset; "bound" when the server is constructed, given its
\* webhook targets and bound into the context; "construct_failed" when
\* AdminServer(...) raises before self.admin_server is assigned;
\* "register_failed" when add_webhook_target or bind_instance raises after
\* the assignment of line 86.  Either failure is logged and re-raised.
AdminOutcomes(admin_enabled) ==
    IF admin_enabled
    THEN {"bound", "construct_failed", "register_failed"}
    ELSE {"skipped"}

\* The webhook targets the admin server holds when the admin block ends with
\* outcome o: all of webhook_urls when every add_webhook_target returned
\* (the failure, if any, is bind_instance's), else those added before the
\* call that raised.
WebhookTargets(o, webhook_urls) ==
    IF o = "bound"
    THEN {webhook_urls}
    ELSE {SubSeq(webhook_urls, 1, n) : n \in 0..Len(webhook_urls)}

\* outbound_transport_manager.setup() returns: the admin block runs and
\* context.inject(Collector) is awaited (lines 82-103); or it raises, or the
\* admin block does, with self.admin_server assigned or not.
setup_outbound_done ==
    /\ setup_call.pc = "outbound_setup"
    /\ \E ok \in BOOLEAN :
        IF ok
        THEN \E admin_enabled \in BOOLEAN, webhook_urls \in WebhookUrls :
             \E o \in AdminOutcomes(admin_enabled) :
            LET g == setup_call.ctx
                constructed == o \in {"bound", "register_failed"}
            IN
            /\ admin_server' = IF constructed THEN g ELSE admin_server
            /\ status' =
                   IF constructed
                   THEN [status EXCEPT !["admin_server"][g] = "constructed"]
                   ELSE status
            /\ IF constructed
               THEN \E targets \in WebhookTargets(o, webhook_urls) :
                        webhooks' = [webhooks EXCEPT ![g] = targets]
               ELSE UNCHANGED webhooks
            /\ injector' =
                   IF o = "bound"
                   THEN [injector EXCEPT ![g].admin = g]
                   ELSE injector
            /\ setup_call' =
                   IF o \in {"bound", "skipped"}
                   THEN [setup_call EXCEPT !.pc = "collector",
                                           !.admin_enabled = admin_enabled]
                   ELSE [setup_call EXCEPT !.pc = "raised", !.ctx = None,
                                           !.error = "admin",
                                           !.admin_enabled = admin_enabled]
        ELSE /\ setup_call' = [setup_call EXCEPT !.pc = "raised", !.ctx = None,
                                                 !.error = "outbound_setup"]
             /\ UNCHANGED <<admin_server, status, webhooks, injector>>
    /\ UNCHANGED <<context, dispatcher, inbound_transport_manager,
                   outbound_transport_manager, wrapped, calls, start_call,
                   stop_call>>
    /\ UNCHANGED traffic_vars

\* The wrap calls of lines 106-123, in the order they are made.
Wraps == <<"router", "handle_message", "connection_manager">>

\* The wrap counts after the first n of the wrap calls have been made.
Wrapped(n) ==
    [router |-> wrapped.router + (IF n >= 1 THEN 1 ELSE 0),
     handle_message |->
         [wrapped.handle_message EXCEPT
             ![dispatcher] = @ + (IF n >= 2 THEN 1 ELSE 0)],
     connection_manager |->
         wrapped.connection_manager + (IF n >= 3 THEN 1 ELSE 0)]

\* context.inject(Collector, required=False) returns or raises; with a
\* collector the three wrap calls are made, each of which can raise; when
\* nothing raised self.context is assigned (lines 103-125).  setup catches
\* none of these failures: self.context then stays as it was.
setup_finish ==
    /\ setup_call.pc = "collector"
    /\ \E injected \in BOOLEAN, collector \in Collectors,
          n \in 0..Len(Wraps) :
        /\ (~injected \/ ~collector) => n = 0
        /\ wrapped' = Wrapped(n)
        /\ IF injected /\ (collector => n = Len(Wraps))
           THEN /\ context' = setup_call.ctx
                /\ setup_call' = Return(setup_call)
           ELSE /\ setup_call' = [setup_call EXCEPT
                       !.pc = "raised", !.ctx = None,
                       !.error = IF injected THEN "wrap" ELSE "inject"]
                /\ UNCHANGED context
    /\ UNCHANGED <<admin_server, dispatcher, inbound_transport_manager,
                   outbound_transport_manager, status, injector, webhooks,
                   calls, start_call, stop_call>>
    /\ UNCHANGED traffic_vars

\* ------------------------------------------------------------------ start

Log(call, step) == [call EXCEPT !.log = Append(@, step)]

\* The step raised and start does not go on: the exception leaves start.
Raise(call, err) ==
    [call EXCEPT !.pc = "raised", !.error = err, !.failed = @ \cup {err},
                 !.ctx = None, !.target = None]

Returned(call) == [Return(call) EXCEPT !.target = None]

\* wallet_config(context) obtains the wallet and the public identity from
\* the context and returns or raises.  What it does with a context that is
\* None is not fixed by anything at hand: both outcomes are possible.
WalletConfig(ctx) == BOOLEAN

\* Lines 176-207 up to the next await: the static test-suite connection is
\* requested when debug.test_suite_endpoint is set, else the invitation when
\* debug.print_invitation is set, else start returns.
AfterBanner(call, test_suite_endpoint, print_invitation) ==
    IF test_suite_endpoint
    THEN [call EXCEPT !.pc = "static"]
    ELSE IF print_invitation
         THEN [call EXCEPT !.pc = "invite"]
         ELSE Returned(call)

\* Lines 164-173: the label is read from the local context, which raises
\* AttributeError when start took self.context while it was still None, and
\* the banner is printed.
AfterAdmin(call, test_suite_endpoint, print_invitation) ==
    IF call.ctx = None
    THEN Raise(call, "AttributeError")
    ELSE AfterBanner(call, test_suite_endpoint, print_invitation)

\* start is called: the local context is taken from self.context (line 130)
\* and wallet_config(context) is awaited (line 133).
start_begin ==
    /\ Finished(setup_call) /\ Finished(start_call)
    /\ calls < MaxLifecycleCalls
    /\ calls + inbound_calls + outbound_calls < MaxCalls
    /\ calls' = calls + 1
    /\ start_call' = [IdleStart EXCEPT !.pc = "wallet", !.ctx = context,
                                       !.log = <<"wallet">>]
    /\ UNCHANGED <<fields, status, injector, webhooks, wrapped,
                   setup_call, stop_call>>
    /\ UNCHANGED traffic_vars

\* wallet_config returns and ledger_config is awaited (line 136), or it
\* raises, which start does not catch.
start_wallet_done ==
    /\ start_call.pc = "wallet"
    /\ \E ok \in WalletConfig(start_call.ctx) :
        start_call' = IF ok
                      THEN [Log(start_call, "ledger") EXCEPT !.pc = "ledger"]
                      ELSE Raise(start_call, "wallet")
    /\ UNCHANGED <<fields, status, injector, webhooks, wrapped,
                   calls, setup_call, stop_call>>
    /\ UNCHANGED traffic_vars

\* ledger_config returns and inbound_transport_manager.start() is awaited
\* (line 140): on a manager that is None the call raises AttributeError,
\* which the except clause logs and re-raises.  Or ledger_config raises.
start_ledger_done ==
    /\ start_call.pc = "ledger"
    /\ \E ok \in BOOLEAN :
        start_call' =
            IF ~ok THEN Raise(start_call, "ledger")
            ELSE IF inbound_transport_manager = None
                 THEN Raise(start_call, "AttributeError")
                 ELSE [Log(start_call, "inbound") EXCEPT
                          !.pc = "inbound", !.target = inbound_transport_manager]
    /\ UNCHANGED <<fields, status, injector, webhooks, wrapped,
                   calls, setup_call, stop_call>>
    /\ UNCHANGED traffic_vars

\* start as it would be if a failure of the inbound manager's start() were
\* only logged, as the admin server's is (lines 156-157), and not re-raised.
start_inbound_done_swallowing ==
    /\ start_call.pc = "inbound"
    /\ \E ok \in BOOLEAN :
        LET after == IF ok THEN start_call
                     ELSE [start_call EXCEPT !.failed = @ \cup {"inbound"}]
        IN
        /\ status' = IF ok
                     THEN [status EXCEPT
                              !["inbound_transport_manager"][start_call.target] =
                                  "started"]
                     ELSE status
        /\ start_call' =
               IF outbound_transport_manager = None
               THEN Raise(after, "AttributeError")
               ELSE [Log(after, "outbound") EXCEPT
                        !.pc = "outbound",
                        !.target = outbound_transport_manager]
    /\ UNCHANGED <<fields, injector, webhooks, wrapped, calls,
                   setup_call, stop_call>>
    /\ UNCHANGED traffic_vars

\* inbound_transport_manager.start() returns and the outbound manager's
\* start() is awaited (line 145), or it raises: logged and re-raised
\* (lines 141-143).
start_inbound_done ==
    /\ start_call.pc = "inbound"
    /\ \E ok \in BOOLEAN :
        IF ok
        THEN /\ status' = [status EXCEPT
                    !["inbound_transport_manager"][start_call.target] = "started"]
             /\ start_call' =
                    IF outbound_transport_manager = None
                    THEN Raise(start_call, "AttributeError")
                    ELSE [Log(start_call, "outbound") EXCEPT
                             !.pc = "outbound",
                             !.target = outbound_transport_manager]
        ELSE /\ start_call' = Raise(start_call, "inbound")
             /\ UNCHANGED status
    /\ UNCHANGED <<fields, injector, webhooks, wrapped, calls,
                   setup_call, stop_call>>
    /\ UNCHANGED traffic_vars

\* start as it would be if the handler of lines 146-148 stopped the inbound
\* manager again before re-raising.
start_outbound_done_rolling_back ==
    /\ start_call.pc = "outbound"
    /\ \E ok, test_suite_endpoint, print_invitation \in BOOLEAN :
        IF ok
        THEN /\ status' = [status EXCEPT
                    !["outbound_transport_manager"][start_call.target] = "started"]
             /\ start_call' =
                    IF admin_server # None
                    THEN [Log(start_call, "admin") EXCEPT
                             !.pc = "admin", !.target = admin_server]
                    ELSE AfterAdmin(start_call, test_suite_endpoint,
                                    print_invitation)
        ELSE /\ start_call' = Raise(start_call, "outbound")
             /\ status' = [status EXCEPT
                    !["inbound_transport_manager"][inbound_transport_manager] =
                        "stopped"]
    /\ UNCHANGED <<fields, injector, webhooks, wrapped, calls,
                   setup_call, stop_call>>
    /\ UNCHANGED traffic_vars

\* outbound_transport_manager.start() returns: with an admin server its
\* start() is awaited (line 155), without one start goes on to line 164.
\* Or it raises: logged and re-raised (lines 146-148).
start_outbound_done ==
    /\ start_call.pc = "outbound"
    /\ \E ok, test_suite_endpoint, print_invitation \in BOOLEAN :
        IF ok
        THEN /\ status' = [status EXCEPT
                    !["outbound_transport_manager"][start_call.target] = "started"]
             /\ start_call' =
                    IF admin_server # None
                    THEN [Log(start_call, "admin") EXCEPT
                             !.pc = "admin", !.target = admin_server]
                    ELSE AfterAdmin(start_call, test_suite_endpoint,
                                    print_invitation)
        ELSE /\ start_call' = Raise(start_call, "outbound")
             /\ UNCHANGED status
    /\ UNCHANGED <<fields, injector, webhooks, wrapped, calls,
                   setup_call, stop_call>>
    /\ UNCHANGED traffic_vars

\* admin_server.start() returns or raises; a raise is logged and swallowed
\* (lines 156-157).  Either way line 161 binds self.admin_server.responder as
\* BaseResponder in the local context, raising AttributeError when that
\* context is None; then start goes on to line 164.
start_admin_done ==
    /\ start_call.pc = "admin"
    /\ \E ok, test_suite_endpoint, print_invitation \in BOOLEAN :
        LET after == IF ok THEN start_call
                     ELSE [start_call EXCEPT !.failed = @ \cup {"admin"}]
        IN
        /\ status' = IF ok
                     THEN [status EXCEPT
                              !["admin_server"][start_call.target] = "started"]
                     ELSE status
        /\ IF start_call.ctx = None
           THEN /\ start_call' = Raise(after, "AttributeError")
                /\ UNCHANGED injector
           ELSE /\ injector' = [injector EXCEPT
                       ![start_call.ctx].responder = admin_server]
                /\ start_call' = AfterAdmin(Log(after, "bind"),
                                            test_suite_endpoint,
                                            print_invitation)
    /\ UNCHANGED <<fields, webhooks, wrapped, calls, setup_call,
                   stop_call>>
    /\ UNCHANGED traffic_vars

\* create_static_connection returns and start goes on to the invitation, or
\* it raises, which start does not catch (lines 177-190).
start_static_done ==
    /\ start_call.pc = "static"
    /\ \E ok, print_invitation \in BOOLEAN :
        start_call' =
            IF ~ok THEN Raise(start_call, "static")
            ELSE IF print_invitation
                 THEN [start_call EXCEPT !.pc = "invite"]
                 ELSE Returned(start_call)
    /\ UNCHANGED <<fields, status, injector, webhooks, wrapped,
                   calls, setup_call, stop_call>>
    /\ UNCHANGED traffic_vars

\* create_invitation returns or raises; a raise is only logged (lines
\* 194-207).  start returns.
start_invite_done ==
    /\ start_call.pc = "invite"
    /\ \E ok \in BOOLEAN : start_call' = Returned(start_call)
    /\ UNCHANGED <<fields, status, injector, webhooks, wrapped,
                   calls, setup_call, stop_call>>
    /\ UNCHANGED traffic_vars

\* ------------------------------------------------------------------- stop

\* TaskQueue.run(coro): the coroutine becomes a task of the queue.
TaskQueueRun(tasks, c, g) ==
    tasks \cup {[component |-> c, instance |-> g, state |-> "pending"]}

\* The timeout that stands for "no deadline".
NoTimeout == -1

\* TaskQueue.complete(timeout) returns once every task has ended or the
\* deadline has elapsed.
TaskQueueComplete(tasks, elapsed, timeout) ==
    \/ \A t \in tasks : t.state # "pending"
    \/ timeout # NoTimeout /\ elapsed >= timeout

\* stop as it would be without the guards of lines 212, 214 and 216.
StopTasks_unguarded(c) == TaskQueueRun({}, c, Field(c))

\* stop as it would be with `elif` at lines 214 and 216: only the first
\* component that is set has its stop() run.
StopTasks_first_only(c) ==
    IF /\ Field(c) # None
       /\ c = "inbound_transport_manager" => admin_server = None
       /\ c = "outbound_transport_manager" =>
              admin_server = None /\ inbound_transport_manager = None
    THEN TaskQueueRun({}, c, Field(c))
    ELSE {}

\* Lines 212-217: the stop() of a component is run on the shutdown queue
\* when the component's field is set.
StopTasks(c) == IF Field(c) # None THEN TaskQueueRun({}, c, Field(c)) ELSE {}

\* stop(timeout) is called, possibly while start is under way: the stops are
\* scheduled and shutdown.complete(timeout) is awaited (lines 211-218).
stop_begin ==
    /\ Finished(stop_call) /\ Finished(setup_call)
    /\ calls < MaxLifecycleCalls
    /\ calls + inbound_calls + outbound_calls < MaxCalls
    /\ calls' = calls + 1
    /\ \E timeout \in 1..MaxTimeout :
        LET tasks == UNION {StopTasks(c) : c \in Components} IN
        stop_call' = [IdleStop EXCEPT
                         !.pc = "waiting", !.timeout = timeout, !.tasks = tasks,
                         !.invoked = {t.component : t \in tasks}]
    /\ UNCHANGED <<fields, status, injector, webhooks, wrapped,
                   setup_call, start_call>>
    /\ UNCHANGED traffic_vars

\* The stop() coroutine of a component ends and the instance is stopped.
\* Nothing obliges it to end.
component_stop_done ==
    /\ stop_call.pc = "waiting"
    /\ \E t \in stop_call.tasks :
        /\ t.state = "pending"
        /\ stop_call' = [stop_call EXCEPT !.tasks = (@ \ {t}) \cup
               {[t EXCEPT !.state = "done"]}]
        /\ status' = [status EXCEPT ![t.component][t.instance] = "stopped"]
    /\ UNCHANGED <<fields, injector, webhooks, wrapped, calls,
                   setup_call, start_call>>
    /\ UNCHANGED traffic_vars

\* Time passes while stop waits for its deadline.
clock_tick ==
    /\ stop_call.pc = "waiting"
    /\ stop_call.elapsed < stop_call.timeout
    /\ stop_call' = [stop_call EXCEPT !.elapsed = @ + 1]
    /\ UNCHANGED <<fields, status, injector, webhooks, wrapped,
                   calls, setup_call, start_call>>
    /\ UNCHANGED traffic_vars

\* complete() called without its timeout.
StopDeadline_none(timeout) == NoTimeout

\* The deadline stop waits with: its timeout argument (line 218).
StopDeadline(timeout) == timeout

\* shutdown.complete(timeout) returns and so does stop (line 218); the
\* shutdown queue, a local of stop, is gone with it.
stop_return ==
    /\ stop_call.pc = "waiting"
    /\ TaskQueueComplete(stop_call.tasks, stop_call.elapsed,
                         StopDeadline(stop_call.timeout))
    /\ stop_call' = [IdleStop EXCEPT
           !.pc = "returned",
           !.invoked = stop_call.invoked,
           !.timed_out = \E t \in stop_call.tasks : t.state = "pending"]
    /\ UNCHANGED <<fields, status, injector, webhooks, wrapped,
                   calls, setup_call, start_call>>
    /\ UNCHANGED traffic_vars

\* -------------------------------------------------- inbound_message_router

\* InboundSession.REPLY_MODE_NONE
REPLY_MODE_NONE == "none"

\* A received message: its payload and its receipt's
\* direct_response_requested (unset, none, or all responses).
InboundMessages ==
    [payload : {"m1"},
     direct_response_requested : {NoValue, REPLY_MODE_NONE, "all"}]

\* The condition of lines 229-233.
DirectResponseRequested(m) ==
    /\ m.direct_response_requested # NoValue
    /\ m.direct_response_requested # REPLY_MODE_NONE

\* The task handed to dispatcher.queue_message (lines 242-248): the message,
\* the router for the replies and the completion callback.
QueuedTask(m) ==
    [message |-> m, dispatcher |-> dispatcher,
     send |-> "outbound_message_router", complete |-> "dispatch_complete"]

\* The inbound router as it would be if it refused a message that requests
\* a direct response instead of only warning about it.
Enqueue_refusing(m) ==
    IF DirectResponseRequested(m) THEN queue ELSE Append(queue, QueuedTask(m))

\* Lines 229-248: a warning is logged for a direct-response request and the
\* message is queued on the dispatcher.
Enqueue(m) == Append(queue, QueuedTask(m))

\* A started inbound transport manager calls the router with a received
\* message (lines 220-248).
inbound_message_router ==
    /\ inbound_calls < MaxInbound
    /\ inbound_calls + outbound_calls < MaxRouterCalls
    /\ calls + inbound_calls + outbound_calls < MaxCalls
    /\ \E g \in Gens : status["inbound_transport_manager"][g] = "started"
    /\ \E m \in InboundMessages :
        /\ received' = Append(received, m)
        /\ warnings' = IF DirectResponseRequested(m) THEN warnings + 1
                       ELSE warnings
        /\ queue' = Enqueue(m)
    /\ inbound_calls' = inbound_calls + 1
    /\ UNCHANGED lifecycle_vars
    /\ UNCHANGED <<outbound, outbound_calls, delivered, undelivered_queue>>

\* ------------------------------------------------- outbound_message_router

\* An optional list is the empty set for None, else the set of the one list.
OutboundMessages ==
    [target : {NoValue, "T0"},
     target_list : {{}, {<<>>}, {<<"T1">>}},
     connection_id : {NoValue, "c1"}]

\* Python's truth value of an optional list.
Truthy(list) == list # {} /\ list # {<<>>}

\* The condition of line 290 without its test of target_list.
NeedsResolution_by_target(m) ==
    /\ m.target = NoValue
    /\ m.connection_id # NoValue

\* The condition of line 290.
NeedsResolution(m) ==
    /\ m.target = NoValue
    /\ ~Truthy(m.target_list)
    /\ m.connection_id # NoValue

\* What get_connection_targets can do: return a list of targets, raise
\* ConnectionManagerError, or raise another exception.
Resolutions ==
    {[kind |-> "targets", targets |-> l] : l \in {<<>>, <<"T1", "T2">>}}
    \cup {[kind |-> k, targets |-> <<>>] :
             k \in {"ConnectionManagerError", "Exception"}}

\* What deliver can do: accept the message, raise OutboundDeliveryError, or
\* raise another exception.
Deliveries == {"accepted", "OutboundDeliveryError", "Exception"}

\* Lines 300-308 as they would be with a bare except that swallows every
\* failure of deliver without a log entry.
Deliver_swallowing(call, d) ==
    LET called == [call EXCEPT !.deliver_calls = @ + 1,
                               !.deliver_arg = call.message,
                               !.delivery = d]
    IN
    IF outbound_transport_manager = None
    THEN [call EXCEPT !.pc = "raised", !.error = "AttributeError"]
    ELSE CASE d = "accepted" -> [called EXCEPT !.pc = "returned"]
           [] d = "OutboundDeliveryError" ->
                [called EXCEPT !.pc = "returned", !.logged = "warning"]
           [] d = "Exception" -> [called EXCEPT !.pc = "returned"]

\* Lines 300-308: deliver is called on the outbound manager, which is an
\* AttributeError on None; OutboundDeliveryError is logged as a warning and
\* the message dropped; any other exception leaves the router.
Deliver(call, d) ==
    LET called == [call EXCEPT !.deliver_calls = @ + 1,
                               !.deliver_arg = call.message,
                               !.delivery = d]
    IN
    IF outbound_transport_manager = None
    THEN [call EXCEPT !.pc = "raised", !.error = "AttributeError"]
    ELSE CASE d = "accepted" -> [called EXCEPT !.pc = "returned"]
           [] d = "OutboundDeliveryError" ->
                [called EXCEPT !.pc = "returned", !.logged = "warning"]
           [] d = "Exception" ->
                [called EXCEPT !.pc = "raised", !.error = "Exception"]

\* The outbound manager's record of the messages deliver accepted, each with
\* the number of the router call that handed it over.
Delivered(call, n) ==
    IF call.delivery = "accepted"
    THEN Append(delivered, [call |-> n,
                            manager |-> outbound_transport_manager,
                            message |-> call.message])
    ELSE delivered

\* Lines 303-305 as they would be if enabled: the message whose delivery
\* failed is kept for a retry.
Undelivered_requeued(call) ==
    IF call.delivery = "OutboundDeliveryError"
    THEN Append(undelivered_queue, call.message)
    ELSE undelivered_queue

\* Lines 303-305 are commented out: no message is kept for a retry.
Undelivered(call) == undelivered_queue

\* The admin server or a handler of a queued message calls the router: a
\* message that needs it has get_connection_targets awaited (lines 290-295),
\* any other is delivered at once (lines 300-308).
outbound_message_router ==
    /\ Finished(outbound)
    /\ outbound_calls < MaxOutbound
    /\ inbound_calls + outbound_calls < MaxRouterCalls
    /\ calls + inbound_calls + outbound_calls < MaxCalls
    /\ \/ queue # <<>>
       \/ \E g \in Gens : status["admin_server"][g] = "started"
    /\ outbound_calls' = outbound_calls + 1
    /\ \E m \in OutboundMessages, d \in Deliveries :
        LET call == [IdleOutbound EXCEPT !.pc = "running",
                                         !.original = m, !.message = m]
        IN
        IF NeedsResolution(m)
        THEN /\ d = "accepted"
             /\ outbound' = [call EXCEPT !.pc = "resolving",
                                         !.resolve_calls = @ + 1]
             /\ UNCHANGED <<delivered, undelivered_queue>>
        ELSE /\ outbound' = Deliver(call, d)
             /\ delivered' = Delivered(Deliver(call, d), outbound_calls + 1)
             /\ undelivered_queue' = Undelivered(Deliver(call, d))
    /\ UNCHANGED lifecycle_vars
    /\ UNCHANGED <<received, queue, inbound_calls, warnings>>

\* Lines 293-298 without the return of line 298: after a failed resolution
\* the router goes on to deliver.
Resolve_falling_through(call, r) ==
    LET ended == [call EXCEPT !.resolution = r.kind, !.targets = r.targets]
    IN
    CASE r.kind = "targets" ->
            [ended EXCEPT !.pc = "running",
                          !.message.target_list = {r.targets}]
      [] r.kind = "ConnectionManagerError" ->
            [ended EXCEPT !.pc = "running", !.logged = "exception"]
      [] r.kind = "Exception" ->
            [ended EXCEPT !.pc = "raised", !.error = "Exception"]

\* Lines 293-298 as they would be if the handler of ConnectionManagerError
\* left the message with an empty target list before returning.
Resolve_clearing(call, r) ==
    LET ended == [call EXCEPT !.resolution = r.kind, !.targets = r.targets]
    IN
    CASE r.kind = "targets" ->
            [ended EXCEPT !.pc = "running",
                          !.message.target_list = {r.targets}]
      [] r.kind = "ConnectionManagerError" ->
            [ended EXCEPT !.pc = "returned", !.logged = "exception",
                          !.message.target_list = {<<>>}]
      [] r.kind = "Exception" ->
            [ended EXCEPT !.pc = "raised", !.error = "Exception"]

\* Lines 293-298: the targets returned become the message's target_list;
\* ConnectionManagerError is logged and the router returns; any other
\* exception leaves the router.
Resolve(call, r) ==
    LET ended == [call EXCEPT !.resolution = r.kind, !.targets = r.targets]
    IN
    CASE r.kind = "targets" ->
            [ended EXCEPT !.pc = "running",
                          !.message.target_list = {r.targets}]
      [] r.kind = "ConnectionManagerError" ->
            [ended EXCEPT !.pc = "returned", !.logged = "exception"]
      [] r.kind = "Exception" ->
            [ended EXCEPT !.pc = "raised", !.error = "Exception"]

\* get_connection_targets returns or raises, and the router runs to its end
\* (lines 293-308).
outbound_resolved ==
    /\ outbound.pc = "resolving"
    /\ \E r \in Resolutions, d \in Deliveries :
        LET resolved == Resolve(outbound, r) IN
        IF resolved.pc = "running"
        THEN /\ outbound' = Deliver(resolved, d)
             /\ delivered' = Delivered(Deliver(resolved, d), outbound_calls)
             /\ undelivered_queue' = Undelivered(Deliver(resolved, d))
        ELSE /\ d = "accepted"
             /\ outbound' = resolved
             /\ UNCHANGED <<delivered, undelivered_queue>>
    /\ UNCHANGED lifecycle_vars
    /\ UNCHANGED <<received, queue, inbound_calls, warnings, outbound_calls>>

\* ------------------------------------------------------------ the system

Next ==
    \/ setup_begin
    \/ setup_built
    \/ setup_inbound_done
    \/ setup_outbound_done
    \/ setup_finish
    \/ start_begin
    \/ start_wallet_done
    \/ start_ledger_done
    \/ start_inbound_done
    \/ start_outbound_done
    \/ start_admin_done
    \/ start_static_done
    \/ start_invite_done
    \/ stop_begin
    \/ component_stop_done
    \/ clock_tick
    \/ stop_return
    \/ inbound_message_router
    \/ outbound_message_router
    \/ outbound_resolved

Spec == Init /\ [][Next]_vars

\* Time passes, and the event loop resumes stop once shutdown.complete is
\* ready to return.
FairSpec == Spec /\ WF_vars(clock_tick) /\ WF_vars(stop_return)

\* ------------------------------------------------------------- properties

\* The steps of start that lie after the admin server's start().
PastAdmin == {"static", "invite", "returned"}

\* C1: in start, a failure of the inbound transport manager's start() leaves
\* start as its error, while a failure of the admin server's start() does
\* not: start goes on past the admin step and returns normally, unless the
\* later static-connection step raises.
C1_FatalVsRecoverableStartup ==
    /\ "inbound" \in start_call.failed =>
           start_call.pc = "raised" /\ start_call.error = "inbound"
    /\ "admin" \in start_call.failed =>
           /\ start_call.error # "admin"
           /\ \/ start_call.pc \in PastAdmin
              \/ start_call.pc = "raised" /\ start_call.error = "static"

Targeted(m) == m.target # NoValue \/ Truthy(m.target_list)

\* C2: for a message with an explicit target or a non-empty target list,
\* whatever its connection_id, the outbound router never calls
\* get_connection_targets.
C2_TargetedNeverResolved ==
    (outbound.pc # "idle" /\ Targeted(outbound.original)) =>
        outbound.resolve_calls = 0 /\ outbound.resolution = "none"

\* C2's case: a message with a target list and a connection_id was routed
\* and handed to deliver.
C2_Witness ==
    /\ outbound.pc = "returned"
    /\ outbound.original.target = NoValue
    /\ Truthy(outbound.original.target_list)
    /\ outbound.original.connection_id # NoValue
    /\ outbound.deliver_calls = 1

\* The entries of the outbound manager's record made by the current call of
\* the router.
HandedOver == {i \in 1..Len(delivered) : delivered[i].call = outbound_calls}

\* C3: when the resolution of a message that has only a connection_id fails
\* (get_connection_targets raises ConnectionManagerError), the router
\* returns normally and deliver is never called for the message.
C3_DropOnResolutionFailure ==
    outbound.resolution = "ConnectionManagerError" =>
        /\ outbound.pc = "returned"
        /\ outbound.error = "none"
        /\ outbound.deliver_calls = 0
        /\ HandedOver = {}

\* C3's case: the resolution of a message with only a connection_id failed.
C3_Witness ==
    /\ outbound.resolution = "ConnectionManagerError"
    /\ outbound.original.target = NoValue
    /\ outbound.original.target_list = {}
    /\ outbound.original.connection_id = "c1"
    /\ outbound.resolve_calls = 1

\* C4: when deliver raises OutboundDeliveryError for a targeted or resolved
\* message, the router returns normally and the message is dropped: neither
\* the outbound manager nor the Conductor keeps it for a later retry.
C4_DropOnDeliveryFailure ==
    outbound.delivery = "OutboundDeliveryError" =>
        /\ outbound.pc = "returned"
        /\ outbound.error = "none"
        /\ HandedOver = {}
        /\ undelivered_queue = <<>>

\* C4's case: deliver raised OutboundDeliveryError on a resolved message.
C4_Witness ==
    /\ outbound.delivery = "OutboundDeliveryError"
    /\ outbound.resolution = "targets"
    /\ outbound.pc = "returned"

\* The number of received messages that request a direct response.
RECURSIVE Requests(_)
Requests(msgs) ==
    IF msgs = <<>> THEN 0
    ELSE (IF DirectResponseRequested(Head(msgs)) THEN 1 ELSE 0)
         + Requests(Tail(msgs))

\* C5: every call of the inbound router submits exactly one task carrying
\* the received message unchanged, so the tasks queued are as many as the
\* calls, in their order; a direct-response request only logs a warning,
\* and a message delivered again is queued again.
C5_OneTaskPerInboundCall ==
    /\ Len(received) = inbound_calls
    /\ Len(queue) = inbound_calls
    /\ \A i \in 1..Len(queue) : queue[i].message = received[i]
    /\ warnings = Requests(received)

\* C5's case: the same message, requesting a direct response, was received
\* twice.
C5_Witness ==
    /\ inbound_calls = 2
    /\ received[1] = received[2]
    /\ DirectResponseRequested(received[1])
    /\ Len(queue) = 2

\* C6: when get_connection_targets returns the list L for a message with a
\* connection_id and neither target nor target list, the router sets the
\* message's target_list to L and calls deliver once, with the message
\* carrying target_list = L.
C6_ResolvedTargetsDelivered ==
    outbound.resolution = "targets" =>
        /\ outbound.message =
               [outbound.original EXCEPT !.target_list = {outbound.targets}]
        /\ outbound.deliver_calls = 1
        /\ outbound.deliver_arg = outbound.message

\* C7: whenever the outbound router has returned normally, the message was
\* either handed to deliver, which accepted it, or dropped with a log entry,
\* and never both; and the Conductor holds no pending outbound message in
\* any state.
C7_DeliveredOrDropped ==
    /\ outbound.pc = "returned" =>
           \/ Cardinality(HandedOver) = 1 /\ outbound.logged = "none"
           \/ HandedOver = {} /\ outbound.logged \in {"exception", "warning"}
    /\ undelivered_queue = <<>>

\* C7's case: the router returned after handing a message over.
C7_Witness ==
    /\ outbound.pc = "returned"
    /\ Cardinality(HandedOver) = 1
    /\ delivered[Len(delivered)].message = outbound.message

\* C8: stop(timeout) ends once its deadline has elapsed, even when the
\* stop() of a component never ends: a stop that waits always returns.
C8_StopReturnsByDeadline ==
    (stop_call.pc = "waiting") ~> (stop_call.pc = "returned")

\* C8's case: stop returned on its deadline while the stop() of a component
\* was still pending.
C8_Witness ==
    /\ stop_call.pc = "returned"
    /\ stop_call.timed_out
    /\ stop_call.invoked # {}

\* No component has been constructed: the Conductor is as __init__ left it.
Created ==
    /\ admin_server = None
    /\ context = None
    /\ dispatcher = None
    /\ inbound_transport_manager = None
    /\ outbound_transport_manager = None

AnyStatus(s) == \E c \in Components, g \in Gens : status[c][g] = s

\* A setup has completed (line 125 assigned the context; the Dispatcher and
\* both managers exist) and nothing has been started or stopped since.
Configured ==
    /\ context # None
    /\ dispatcher # None
    /\ inbound_transport_manager # None
    /\ outbound_transport_manager # None
    /\ ~AnyStatus("started") /\ ~AnyStatus("stopped")

\* start has returned normally and no stop has acted since.
Running ==
    /\ start_call.pc = "returned"
    /\ stop_call.pc = "idle"
    /\ ~AnyStatus("stopped")

\* A step in which setup constructs the components (line 67 on).
SetupActs == dispatcher' # dispatcher

\* A step in which start begins to start the components: ledger_config has
\* returned and the inbound manager's start() is called (line 140).
StartActs == start_call.pc = "ledger" /\ start_call'.pc = "inbound"

\* A step in which stop runs the stop() of a component (lines 212-217).
StopActs ==
    /\ stop_call.pc # "waiting"
    /\ stop_call'.pc = "waiting"
    /\ stop_call'.invoked # {}

\* A step that keeps the order of the lifecycle: setup constructs the
\* components only in Created, start begins to start them only in
\* Configured, and stop runs their stop() only in Running.
InOrder ==
    /\ SetupActs => Created
    /\ StartActs => Configured
    /\ StopActs => Running

\* C9: over any sequence of calls the lifecycle moves only along Created,
\* Configured, Starting, Running, Stopping, Stopped, one state at a time:
\* setup takes effect only in Created, start only in Configured, and stop
\* tears down only from Running; none takes effect again later.
C9_LifecycleInOrder == [][InOrder]_vars

\* C10: in whatever state stop is called, it runs the stop() of exactly the
\* components whose reference is set, each on the instance referred to, none
\* on an absent one, and it does not raise.
C10_StopInvokesExactlyPresent ==
    [][/\ (stop_call.pc # "waiting" /\ stop_call'.pc = "waiting") =>
              /\ {t.component : t \in stop_call'.tasks} =
                     {c \in Components : Field(c) # None}
              /\ \A t \in stop_call'.tasks :
                     t.instance # None /\ t.instance = Field(t.component)
       /\ stop_call'.pc # "raised"]_vars

\* C10's case: stop was called with the admin server absent and both
\* managers present, and returned.
C10_Witness ==
    /\ stop_call.pc = "returned"
    /\ admin_server = None
    /\ stop_call.invoked = {"inbound_transport_manager",
                            "outbound_transport_manager"}

\* C11: start skips a component that has not been constructed: called while
\* the context or a transport manager is absent, it does not raise.
C11_StartSkipsAbsent ==
    (\/ context = None
     \/ inbound_transport_manager = None
     \/ outbound_transport_manager = None) => start_call.pc # "raised"

\* The steps a call of start has begun.
Steps(call) == {call.log[i] : i \in 1..Len(call.log)}

\* C12: start binds the admin server's responder as the default responder
\* only when the admin server's start() succeeded: when it raised, the call
\* goes on without binding.
C12_BoundOnlyOnAdminSuccess ==
    "admin" \in start_call.failed => "bind" \notin Steps(start_call)

\* The default-responder slot of some context has been written.
ResponderBound == \E g \in Gens : injector[g].responder # None

\* C13: the default-responder slot is written before any reader can be
\* active: with an admin server present, no inbound message is received and
\* queued for handling, and no handler sends through the outbound router,
\* before start has bound the admin server's responder.
C13_ResponderBoundBeforeReaders ==
    (admin_server # None /\ (inbound_calls > 0 \/ outbound_calls > 0)) =>
        ResponderBound

\* C14: the class-level wrapping of the ConnectionManager's methods is
\* applied at most once in the process, however often setup is called.
C14_ClassLevelWrapOnce == wrapped.connection_manager <= 1

\* C15: whenever outbound_message_router executes, a setup has completed:
\* the context is assigned and the Dispatcher and both transport managers
\* exist.  No collaborator given the router during setup calls it earlier.
C15_RoutingOnlyAfterSetup ==
    outbound.pc # "idle" =>
        /\ context # None
        /\ dispatcher # None
        /\ inbound_transport_manager # None
        /\ outbound_transport_manager # None

\* The last setup has returned and read admin.enabled as false (line 82).
AdminDisabled ==
    /\ setup_call.pc = "returned"
    /\ ~setup_call.admin_enabled

\* C16: with admin.enabled false, setup leaves the admin server reference
\* absent, and a start that follows neither calls an admin server's start()
\* nor binds a default responder.
C16_NoAdminWhenDisabled ==
    [][AdminDisabled =>
           /\ admin_server = None
           /\ start_call'.pc = "admin" => start_call.pc = "admin"
           /\ \A g \in Gens :
                  injector'[g].responder = injector[g].responder]_vars

\* The steps of start in the order of lines 133-161.
StartOrder == <<"wallet", "ledger", "inbound", "outbound", "admin", "bind">>

\* The four steps whose failure ends start.
FatalSteps == {"wallet", "ledger", "inbound", "outbound"}

\* C17: start begins its steps in the order wallet configuration, ledger
\* configuration, inbound manager start, outbound manager start, admin
\* server start (then the binding of the responder), and when one of the
\* first four fails, start raises with that failure and begins no later
\* step.
C17_StartInOrderFailFast ==
    /\ Len(start_call.log) <= Len(StartOrder)
    /\ \A i \in 1..Len(start_call.log) : start_call.log[i] = StartOrder[i]
    /\ \A s \in FatalSteps :
           s \in start_call.failed =>
               /\ start_call.pc = "raised"
               /\ start_call.error = s
               /\ start_call.log[Len(start_call.log)] = s

\* C17's case: the inbound manager's start() failed, and start ended there.
C17_Witness ==
    /\ start_call.pc = "raised"
    /\ start_call.error = "inbound"
    /\ start_call.log = <<"wallet", "ledger", "inbound">>
    /\ \A g \in Gens : status["outbound_transport_manager"][g] # "started"
    /\ ~ResponderBound

\* The message came without a target and without targets in its list, and
\* with a connection_id.
OnlyConnection(m) ==
    /\ m.target = NoValue
    /\ m.target_list \in {{}, {<<>>}}
    /\ m.connection_id # NoValue

\* C18: the outbound router changes a message at most in its target_list,
\* and only when the message has neither target nor targets, has a
\* connection_id, and the resolution returned: then target_list is the list
\* returned.  In every other case the message is as it was passed in, when
\* it reaches deliver and when it is dropped.
C18_OnlyTargetListWritten ==
    outbound.pc # "idle" =>
        /\ outbound.message.target = outbound.original.target
        /\ outbound.message.connection_id = outbound.original.connection_id
        /\ IF OnlyConnection(outbound.original)
              /\ outbound.resolution = "targets"
           THEN outbound.message.target_list = {outbound.targets}
           ELSE /\ outbound.message = outbound.original
                /\ outbound.deliver_calls > 0 =>
                       outbound.deliver_arg = outbound.original

\* C18's case: a message with an empty target list and a connection_id was
\* resolved, which changed its target_list.
C18_Witness ==
    /\ outbound.pc = "returned"
    /\ outbound.original.target_list = {<<>>}
    /\ outbound.resolution = "targets"
    /\ outbound.message # outbound.original
    /\ outbound.deliver_arg = outbound.message

\* The stop() of component c, run by the waiting stop, ends in this step.
StopEnds(c) ==
    /\ component_stop_done
    /\ \E t \in stop_call.tasks :
           /\ t.component = c
           /\ t.state = "pending"
           /\ [t EXCEPT !.state = "done"] \in stop_call'.tasks

\* C19: when stop begins to wait on its deadline, the stop() of every
\* component that is set has been initiated, and each of them can end
\* whether or not the others have: the stops run concurrently.
C19_StopsInitiatedTogether ==
    stop_call.pc = "waiting" =>
        \A c \in Components :
            Field(c) # None =>
                /\ \E t \in stop_call.tasks :
                       t.component = c /\ t.instance = Field(c)
                /\ (\E t \in stop_call.tasks :
                        t.component = c /\ t.state = "pending") =>
                       ENABLED StopEnds(c)

\* C19's case: with the deadline not yet reached, the outbound manager's
\* stop() has ended while the admin server's, initiated first, has not.
C19_Witness ==
    /\ stop_call.pc = "waiting"
    /\ stop_call.elapsed = 0
    /\ \E t \in stop_call.tasks :
           t.component = "admin_server" /\ t.state = "pending"
    /\ \E t \in stop_call.tasks :
           t.component = "outbound_transport_manager" /\ t.state = "done"

\* The instance g of component c is being stopped by the waiting stop.
BeingStopped(c, g) ==
    /\ stop_call.pc = "waiting"
    /\ \E t \in stop_call.tasks :
           t.component = c /\ t.instance = g /\ t.state = "pending"

Started(c) == \E g \in Gens : status[c][g] = "started"

\* C20: start does not roll back.  A started component ceases to be started
\* only through a stop() that a call of stop runs, never in a step of
\* start; so when start has raised at the outbound manager's start or at the
\* static connection and stop was never called, the components started
\* before the failure are still started.
C20_StartNeverRollsBack ==
    [][/\ \A c \in Components, g \in Gens :
              (status[c][g] = "started" /\ status'[c][g] # "started") =>
                  BeingStopped(c, g)
       /\ (start_call'.pc = "raised" /\ stop_call'.pc = "idle") =>
              /\ start_call'.error = "outbound" =>
                     Started("inbound_transport_manager")'
              /\ start_call'.error = "static" =>
                     /\ Started("inbound_transport_manager")'
                     /\ Started("outbound_transport_manager")']_vars

\* C20's case: start raised at the outbound manager's start, stop has not
\* been called, and the started inbound manager has since taken a message.
C20_Witness ==
    /\ start_call.pc = "raised"
    /\ start_call.error = "outbound"
    /\ stop_call.pc = "idle"
    /\ Started("inbound_transport_manager")
    /\ ~Started("outbound_transport_manager")
    /\ inbound_calls > 0
    /\ queue # <<>>

====
